---- MODULE Spec2Model ----
(***************************************************************************)
(* Model of the ingestion service's document-to-chunk pipeline:            *)
(*   - SentenceTextSplitter (splitter/sentence.rs): new, count_tokens,     *)
(*     split_into_sentences, split;                                        *)
(*   - the parsers (parser/*.rs): LocalPdfParser, DocxParser, HtmlParser,  *)
(*     AzureDocIntelligenceParser (submission, poll loop, page assembly);  *)
(*   - the entry points (grpc/mod.rs, api/mod.rs): parse_document up to    *)
(*     the construction of the splitter.                                   *)
(* Text is a sequence of one-character strings.                            *)
(***************************************************************************)
EXTENDS Integers, Sequences, FiniteSets, TLC

(* ------------------------------------------------------------------ *)
(* Bounds of the model                                                  *)
(* ------------------------------------------------------------------ *)

\* most fragments a document's text is assembled from
MaxPieces == 3
\* most pages handed to split
MaxPages == 2
\* largest max_tokens handed to SentenceTextSplitter::new
MaxTokens == 3

(* ------------------------------------------------------------------ *)
(* State                                                                *)
(* ------------------------------------------------------------------ *)

\* SentenceTextSplitter: one construction and one call of split
VARIABLES
    pc,               \* position of the call: new, page loop, sentence loop, done, panic
    req_max_tokens,   \* argument max_tokens of new
    req_overlap,      \* argument overlap_percent of new
    pages,            \* argument pages of split: sequence of [page_num, text]
    max_tokens,       \* self.max_tokens
    overlap_tokens,   \* self.overlap_tokens
    page_idx,         \* position of `for page in pages`
    sentences,        \* sentences of the current page
    sent_idx,         \* position of `for sentence in sentences`
    current_chunk,    \* the buffer
    current_tokens,   \* the running token total
    chunks,           \* the chunks pushed so far
    built             \* history: how the buffer and each pushed chunk were built

splitVars == <<pc, req_max_tokens, req_overlap, pages, max_tokens, overlap_tokens,
               page_idx, sentences, sent_idx, current_chunk, current_tokens,
               chunks, built>>

\* the parsers: one call of parse
VARIABLES
    parser,        \* which Parser's parse is running
    ppc,           \* position of the call
    outcome,       \* "none", "ok", "err" or "panic"
    error,         \* the ParserError of an "err" outcome
    out_pages,     \* the `pages` vector of parse
    children,      \* DOCX: docx.document.children
    child_idx,     \* DOCX: position of `for child in ...`
    current_text,  \* DOCX: the accumulated buffer
    page_num,      \* DOCX, HTML: the page counter
    html_text,     \* HTML: the extracted text
    current_pos    \* HTML: the slicing position

parseVars == <<parser, ppc, outcome, error, out_pages, children, child_idx,
               current_text, page_num, html_text, current_pos>>

VARIABLES
    attempt,    \* OCR: iterations of the poll loop begun
    polls,      \* OCR: status requests issued
    waited,     \* OCR: seconds slept
    last,       \* OCR: the last response handled
    analysis    \* OCR: analyze_result.pages of the service's completed response

ocrVars == <<attempt, polls, waited, last, analysis>>

\* the service's entry points: one request
VARIABLES
    entry,      \* which handler runs: "grpc", "rest", or "none" (new called directly)
    options     \* gRPC: req.options

entryVars == <<entry, options>>

vars == <<splitVars, parseVars, ocrVars, entryVars>>

(* ------------------------------------------------------------------ *)
(* Characters and strings                                               *)
(* ------------------------------------------------------------------ *)

\* Option and Result values: present (or Ok) with a value, or absent (or Err)
Some(v) == [some |-> TRUE, v |-> v]

None == [some |-> FALSE, v |-> <<>>]

\* char::is_whitespace, as used by str::trim and str::split_whitespace
IsWhitespace(c) == c \in {" ", "\n", "\t"}

IsNewline(c) == c \in {"\n"}

IsLetter(c) == c \in {"a", "b"}

IsDigit(c) == c \in {"1"}

\* neither whitespace, letter nor digit
IsPunct(c) == ~IsWhitespace(c) /\ ~IsLetter(c) /\ ~IsDigit(c)

\* the terminal characters of split_into_sentences
IsTerminal(c) == c \in {".", "!", "?", "\n"}

\* String::len counts UTF-8 bytes; every character of the model is ASCII
Utf8Width(c) == 1

RECURSIVE StrLen(_)
StrLen(s) == IF s = <<>> THEN 0 ELSE Utf8Width(Head(s)) + StrLen(Tail(s))

SetMin(S) == CHOOSE x \in S : \A y \in S : x <= y

SetMax(S) == CHOOSE x \in S : \A y \in S : x >= y

\* str::trim: strip leading and trailing whitespace
Trim(s) ==
    LET solid == {i \in 1..Len(s) : ~IsWhitespace(s[i])}
    IN  IF solid = {} THEN <<>> ELSE SubSeq(s, SetMin(solid), SetMax(solid))

\* str::split_whitespace: the maximal runs of non-whitespace, in order
RECURSIVE SplitWhitespaceFrom(_, _, _, _)
SplitWhitespaceFrom(s, i, word, words) ==
    IF i > Len(s)
    THEN IF word = <<>> THEN words ELSE Append(words, word)
    ELSE IF IsWhitespace(s[i])
         THEN SplitWhitespaceFrom(s, i + 1, <<>>,
                                  IF word = <<>> THEN words ELSE Append(words, word))
         ELSE SplitWhitespaceFrom(s, i + 1, Append(word, s[i]), words)

SplitWhitespace(s) == SplitWhitespaceFrom(s, 1, <<>>, <<>>)

\* [&str]::join(" ")
RECURSIVE Join(_)
Join(words) ==
    IF words = <<>> THEN <<>>
    ELSE IF Len(words) = 1 THEN words[1]
    ELSE words[1] \o <<" ">> \o Join(Tail(words))

\* usize::saturating_sub
SaturatingSub(a, b) == IF b > a THEN 0 ELSE a - b

(* ------------------------------------------------------------------ *)
(* Token Counter: SentenceTextSplitter::count_tokens                    *)
(* cl100k_base splits the text with its pattern                         *)
(*   [^\r\n\p{L}\p{N}]?\p{L}+ | \p{N}{1,3} | ?[^\s\p{L}\p{N}]+[\r\n]*   *)
(*   | \s*[\r\n]+ | \s+(?!\S) | \s+                                     *)
(* and encodes each piece; every piece over the model's characters is   *)
(* one vocabulary entry, so the count is the number of pieces.          *)
(* ------------------------------------------------------------------ *)

\* last index of the run of characters satisfying P that starts at i (i - 1: none)
RunEnd(s, i, P(_)) ==
    LET stops == {j \in i..Len(s) : ~P(s[j])}
    IN  IF stops = {} THEN Len(s) ELSE SetMin(stops) - 1

\* last index of the piece the pattern matches at position i
PieceEnd(s, i) ==
    LET c == s[i]
        hasNext == i + 1 <= Len(s)
        wsEnd == RunEnd(s, i, IsWhitespace)
        newlines == {j \in i..wsEnd : IsNewline(s[j])}
    IN  IF IsLetter(c) THEN RunEnd(s, i, IsLetter)
        ELSE IF ~IsNewline(c) /\ ~IsDigit(c) /\ hasNext /\ IsLetter(s[i + 1])
             THEN RunEnd(s, i + 1, IsLetter)
        ELSE IF IsDigit(c)
             THEN IF RunEnd(s, i, IsDigit) > i + 2
                  THEN i + 2 ELSE RunEnd(s, i, IsDigit)
        ELSE IF IsPunct(c)
             THEN RunEnd(s, RunEnd(s, i, IsPunct) + 1, IsNewline)
        ELSE IF c = " " /\ hasNext /\ IsPunct(s[i + 1])
             THEN RunEnd(s, RunEnd(s, i + 1, IsPunct) + 1, IsNewline)
        ELSE IF newlines # {} THEN SetMax(newlines)
        ELSE IF wsEnd = Len(s) THEN wsEnd
        ELSE IF wsEnd > i THEN wsEnd - 1
        ELSE wsEnd

RECURSIVE CountPiecesFrom(_, _)
CountPiecesFrom(s, i) ==
    IF i > Len(s) THEN 0 ELSE 1 + CountPiecesFrom(s, PieceEnd(s, i) + 1)

\* bpe.encode_with_special_tokens(text).len()
count_tokens(text) == CountPiecesFrom(text, 1)

(* ------------------------------------------------------------------ *)
(* Sentence Segmenter: SentenceTextSplitter::split_into_sentences       *)
(* ------------------------------------------------------------------ *)

\* the same pushing the buffer as it is
PushUntrimmed(found, current) ==
    IF Trim(current) # <<>> THEN Append(found, current) ELSE found

\* the trimmed buffer is pushed when it is not empty
PushTrimmed(found, current) ==
    IF Trim(current) # <<>> THEN Append(found, Trim(current)) ELSE found

RECURSIVE SentenceLoop(_, _, _, _)
SentenceLoop(text, i, current, found) ==
    IF i > Len(text)
    THEN PushTrimmed(found, current)
    ELSE IF IsTerminal(text[i])
         THEN SentenceLoop(text, i + 1, <<>>,
                           PushTrimmed(found, Append(current, text[i])))
         ELSE SentenceLoop(text, i + 1, Append(current, text[i]), found)

split_into_sentences(text) == SentenceLoop(text, 1, <<>>, <<>>)

(* ------------------------------------------------------------------ *)
(* Chunk Assembler: SentenceTextSplitter::new and TextSplitter::split   *)
(* ------------------------------------------------------------------ *)


\* line 13
OverlapTokens(maxTokens, overlapPercent) == (maxTokens * overlapPercent) \div 100

\* the same closing already when the budget is reached
MustCloseAtBudget(currentTokens, sentenceTokens, maxTokens, currentChunk) ==
    currentTokens + sentenceTokens >= maxTokens /\ currentChunk # <<>>

\* the same without the pending sentence's tokens
MustCloseIgnoringSentence(currentTokens, sentenceTokens, maxTokens, currentChunk) ==
    currentTokens > maxTokens /\ currentChunk # <<>>

\* line 60: the chunk is closed before the sentence is appended
MustClose(currentTokens, sentenceTokens, maxTokens, currentChunk) ==
    currentTokens + sentenceTokens > maxTokens /\ currentChunk # <<>>

\* the same cut one character short
ChunkTextCut(currentChunk) == SubSeq(Trim(currentChunk), 1, Len(Trim(currentChunk)) - 1)

\* Chunk.text, lines 64 and 87
ChunkText(currentChunk) == Trim(currentChunk)

\* Chunk.token_count, lines 65 and 88
ChunkTokenCount(currentChunk, currentTokens) == currentTokens

\* Chunk.char_count, lines 66 and 89
ChunkCharCount(currentChunk) == StrLen(currentChunk)

\* the Chunk pushed at lines 61-67 and 84-90; Uuid::new_v4 is a fresh id
MakeChunk(id, pageNum, currentChunk, currentTokens) ==
    [id |-> id, page_num |-> pageNum, text |-> ChunkText(currentChunk),
     token_count |-> ChunkTokenCount(currentChunk, currentTokens),
     char_count |-> ChunkCharCount(currentChunk)]

\* line 71, for max_tokens > 0
OverlapWordCount(nWords, overlapTokens, maxTokens) ==
    (nWords * overlapTokens) \div maxTokens

\* the same keeping the leading words
OverlapWordsFromFront(words, overlapWordCount) ==
    SubSeq(words, 1, Len(words) - SaturatingSub(Len(words), overlapWordCount))

\* line 72: the trailing words kept as the next buffer
OverlapWords(words, overlapWordCount) ==
    SubSeq(words, SaturatingSub(Len(words), overlapWordCount) + 1, Len(words))

\* the same without the test for an empty buffer
AppendSentenceAlwaysBlank(currentChunk, sentence) == currentChunk \o <<" ">> \o sentence

\* lines 76-79
AppendSentence(currentChunk, sentence) ==
    IF currentChunk # <<>> THEN currentChunk \o <<" ">> \o sentence ELSE sentence

\* the same with the buffer declared outside the page loop
BufferCarriedOver(currentChunk, currentTokens) ==
    [current_chunk |-> currentChunk, current_tokens |-> currentTokens]

\* the buffer and running total at the top of a page, lines 54-55: declared
\* inside the page loop, whatever the previous page left
BufferAtPageStart(currentChunk, currentTokens) ==
    [current_chunk |-> <<>>, current_tokens |-> 0]

\* history of a buffer: its page (by position), the overlap words it was seeded
\* with and the sentences (by position in the page) appended to it
FreshBuilt(pageIdx, closed) ==
    [page |-> pageIdx, seed |-> <<>>, sents |-> <<>>, closed |-> closed]

\* the history entry of a chunk pushed from the buffer
BuiltEntry(b) == [page |-> b.page, seed |-> b.seed, sents |-> b.sents]

\* One iteration of the sentence loop, lines 57-81, on the loop state
\* st = [current_chunk, current_tokens, chunks, built, panicked].
\* With max_tokens = 0 the division of line 71 panics after the push of line 61.
SentenceStep(maxTokens, overlapTokens, pageNum, st, idx, sentence) ==
    LET sentence_tokens == count_tokens(sentence)
        close == MustClose(st.current_tokens, sentence_tokens, maxTokens,
                           st.current_chunk)
        pushed == IF close
                  THEN Append(st.chunks,
                              MakeChunk(Len(st.chunks) + 1, pageNum,
                                        st.current_chunk, st.current_tokens))
                  ELSE st.chunks
        closed == IF close
                  THEN Append(st.built.closed, BuiltEntry(st.built))
                  ELSE st.built.closed
        words == SplitWhitespace(st.current_chunk)
    IN  IF close /\ maxTokens = 0
        THEN [st EXCEPT !.chunks = pushed, !.built.closed = closed,
                        !.panicked = TRUE]
        ELSE LET seed == IF close
                         THEN OverlapWords(words,
                                  OverlapWordCount(Len(words), overlapTokens, maxTokens))
                         ELSE <<>>
                 kept == IF close THEN Join(seed) ELSE st.current_chunk
                 keptTokens == IF close THEN count_tokens(kept)
                               ELSE st.current_tokens
             IN  [current_chunk |-> AppendSentence(kept, sentence),
                  current_tokens |-> keptTokens + sentence_tokens,
                  chunks |-> pushed,
                  built |-> [page |-> st.built.page,
                             seed |-> IF close THEN seed ELSE st.built.seed,
                             sents |-> IF close THEN <<idx>>
                                       ELSE Append(st.built.sents, idx),
                             closed |-> closed],
                  panicked |-> FALSE]

\* the flush after the last sentence of a page, lines 83-91
FlushStep(pageNum, st) ==
    IF Trim(st.current_chunk) # <<>>
    THEN [st EXCEPT !.chunks = Append(st.chunks,
                                  MakeChunk(Len(st.chunks) + 1, pageNum,
                                            st.current_chunk, st.current_tokens)),
                    !.built.closed = Append(st.built.closed, BuiltEntry(st.built))]
    ELSE st

\* the sentence loop and the flush of one page from the given loop state
RECURSIVE SentenceFold(_, _, _, _, _, _)
SentenceFold(maxTokens, overlapTokens, pageNum, st, sents, idx) ==
    IF st.panicked THEN st
    ELSE IF idx > Len(sents) THEN FlushStep(pageNum, st)
    ELSE SentenceFold(maxTokens, overlapTokens, pageNum,
                      SentenceStep(maxTokens, overlapTokens, pageNum, st, idx,
                                   sents[idx]),
                      sents, idx + 1)

\* split(&[page]) of a splitter with the given fields: the chunks, or the panic
SplitAlone(maxTokens, overlapTokens, page) ==
    SentenceFold(maxTokens, overlapTokens, page.page_num,
                 [current_chunk |-> <<>>, current_tokens |-> 0,
                  chunks |-> <<>>, built |-> FreshBuilt(1, <<>>),
                  panicked |-> FALSE],
                 split_into_sentences(page.text), 1)

(* ------------------------------------------------------------------ *)
(* Inputs of the splitter                                               *)
(* ------------------------------------------------------------------ *)

\* fragments page texts are assembled from: a sentence ended by a full stop, a
\* number ended by a newline, a word followed by a blank, a blank
Pieces == { <<"a", ".">>, <<"1", "\n">>, <<"b", " ">>, <<" ">> }

\* overlap_percent values: none, half, all, and one beyond 100 (new does not
\* bound it)
OverlapPercents == {0, 50, 100, 150}

RECURSIVE Flatten(_)
Flatten(ps) == IF ps = <<>> THEN <<>> ELSE Head(ps) \o Flatten(Tail(ps))

PieceSeqs == UNION {[1..k -> Pieces] : k \in 0..MaxPieces}

\* the documents: up to MaxPages consecutive pages cut out of up to MaxPieces
\* fragments, numbered from 1 as the parsers number them
PageLists ==
    {<<>>} \cup
    UNION { { [i \in 1..n |->
                 [page_num |-> i,
                  text |-> Flatten(SubSeq(ps, (IF i = 1 THEN 0 ELSE cut[i - 1]) + 1,
                                          IF i = n THEN Len(ps) ELSE cut[i]))]]
              : cut \in {c \in [1..(n - 1) -> 0..Len(ps)] :
                           \A i \in 1..(n - 2) : c[i] <= c[i + 1]} }
            : ps \in PieceSeqs, n \in 1..MaxPages }

SplitInit ==
    /\ pc = "new"
    /\ req_max_tokens \in 0..MaxTokens
    /\ req_overlap \in OverlapPercents
    /\ pages \in PageLists
    /\ max_tokens = 0
    /\ overlap_tokens = 0
    /\ page_idx = 0
    /\ sentences = <<>>
    /\ sent_idx = 0
    /\ current_chunk = <<>>
    /\ current_tokens = 0
    /\ chunks = <<>>
    /\ built = FreshBuilt(0, <<>>)
    /\ entry = "none" /\ options = None

\* SentenceTextSplitter::new, lines 12-18
New ==
    /\ pc = "new"
    /\ max_tokens' = req_max_tokens
    /\ overlap_tokens' = OverlapTokens(req_max_tokens, req_overlap)
    /\ pc' = "pages"
    /\ UNCHANGED <<req_max_tokens, req_overlap, pages, page_idx, sentences,
                   sent_idx, current_chunk, current_tokens, chunks, built>>
    /\ UNCHANGED <<parseVars, ocrVars, entryVars>>

\* the top of `for page in pages`, lines 52-55
BeginPage ==
    /\ pc = "pages"
    /\ page_idx < Len(pages)
    /\ page_idx' = page_idx + 1
    /\ sentences' = split_into_sentences(pages[page_idx + 1].text)
    /\ sent_idx' = 1
    /\ current_chunk' = BufferAtPageStart(current_chunk, current_tokens).current_chunk
    /\ current_tokens' = BufferAtPageStart(current_chunk, current_tokens).current_tokens
    /\ built' = FreshBuilt(page_idx + 1, built.closed)
    /\ pc' = "sentences"
    /\ UNCHANGED <<req_max_tokens, req_overlap, pages, max_tokens, overlap_tokens,
                   chunks>>
    /\ UNCHANGED <<parseVars, ocrVars, entryVars>>

LoopState ==
    [current_chunk |-> current_chunk, current_tokens |-> current_tokens,
     chunks |-> chunks, built |-> built, panicked |-> FALSE]

\* one iteration of `for sentence in sentences`, lines 57-81
Sentence ==
    /\ pc = "sentences"
    /\ sent_idx <= Len(sentences)
    /\ LET r == SentenceStep(max_tokens, overlap_tokens, pages[page_idx].page_num,
                             LoopState, sent_idx, sentences[sent_idx])
       IN  /\ current_chunk' = r.current_chunk
           /\ current_tokens' = r.current_tokens
           /\ chunks' = r.chunks
           /\ built' = r.built
           /\ pc' = IF r.panicked THEN "panic" ELSE "sentences"
    /\ sent_idx' = sent_idx + 1
    /\ UNCHANGED <<req_max_tokens, req_overlap, pages, max_tokens, overlap_tokens,
                   page_idx, sentences>>
    /\ UNCHANGED <<parseVars, ocrVars, entryVars>>

\* after the last sentence of the page, lines 83-91
EndPage ==
    /\ pc = "sentences"
    /\ sent_idx > Len(sentences)
    /\ LET r == FlushStep(pages[page_idx].page_num, LoopState)
       IN  /\ chunks' = r.chunks
           /\ built' = r.built
    /\ pc' = "pages"
    /\ UNCHANGED <<req_max_tokens, req_overlap, pages, max_tokens, overlap_tokens,
                   page_idx, sentences, sent_idx, current_chunk, current_tokens>>
    /\ UNCHANGED <<parseVars, ocrVars, entryVars>>

\* `chunks` is returned, line 94
Return ==
    /\ pc = "pages"
    /\ page_idx = Len(pages)
    /\ pc' = "done"
    /\ UNCHANGED <<req_max_tokens, req_overlap, pages, max_tokens, overlap_tokens,
                   page_idx, sentences, sent_idx, current_chunk, current_tokens,
                   chunks, built>>
    /\ UNCHANGED <<parseVars, ocrVars, entryVars>>

SplitNext == New \/ BeginPage \/ Sentence \/ EndPage \/ Return

(* ------------------------------------------------------------------ *)
(* Properties of the splitter                                           *)
(* ------------------------------------------------------------------ *)

ChunkIdx == 1..Len(chunks)

\* the sentences of the page at position p
PageSentences(p) == split_into_sentences(pages[p].text)

\* the positions in `chunks` of the chunks pushed for the page at position p
ChunksOfPage(p) == {i \in ChunkIdx : built.closed[i].page = p}

\* a chunk without its fresh id
Content(c) == [page_num |-> c.page_num, text |-> c.text,
               token_count |-> c.token_count, char_count |-> c.char_count]

\* the parameters the Chunk Assembler is specified for
ValidParams == req_max_tokens >= 1 /\ req_overlap <= 100

\* sub occurs in ws as a run of consecutive elements
ContainsRun(ws, sub) ==
    \E off \in 0..(Len(ws) - Len(sub)) : SubSeq(ws, off + 1, off + Len(sub)) = sub

\* C1: for max_tokens >= 1 and overlap_percent in 0..100, every chunk pushed by
\* split has token_count equal to the Token Counter applied to its text.
C1_TokenCountIsCountOfText ==
    ValidParams =>
        \A i \in ChunkIdx : chunks[i].token_count = count_tokens(chunks[i].text)

\* C2: a splitter with max_tokens = 0 is rejected by new: split is never entered
\* with max_tokens = 0 and the division by max_tokens never has a zero divisor.
C2_ZeroMaxTokensRejected ==
    /\ pc \in {"pages", "sentences", "done", "panic"} => max_tokens >= 1
    /\ pc # "panic"

\* the chunk positions i and sentence positions j such that chunk i was built by
\* appending sentence j of its page, the sentence alone exceeding max_tokens
OversizeIn(i) ==
    {j \in 1..Len(built.closed[i].sents) :
        count_tokens(PageSentences(built.closed[i].page)[built.closed[i].sents[j]])
            > max_tokens}

SentenceOf(i, j) == PageSentences(built.closed[i].page)[built.closed[i].sents[j]]

\* C3 as stated: in the result of split, a sentence that alone exceeds
\* max_tokens is the whole text of the chunk it is in, no other chunk of the page
\* carries it in its overlap tail, and a page that is one such sentence yields
\* exactly one chunk.
C3_OversizeSentenceAlone ==
    pc = "done" =>
        /\ \A i \in ChunkIdx : \A j \in OversizeIn(i) :
              /\ chunks[i].text = SentenceOf(i, j)
              /\ \A k \in ChunksOfPage(built.closed[i].page) \ {i} :
                    ~ContainsRun(built.closed[k].seed,
                                 SplitWhitespace(SentenceOf(i, j)))
        /\ \A p \in 1..Len(pages) :
              (Len(PageSentences(p)) = 1
               /\ count_tokens(PageSentences(p)[1]) > max_tokens)
                  => Cardinality(ChunksOfPage(p)) = 1

\* C3 amended: a sentence that alone exceeds max_tokens is never split: it is
\* the only sentence appended to its chunk, whose text is the overlap tail of the
\* previous chunk (if any) followed by the sentence; without a tail the sentence
\* is the chunk's whole text; a page that is one such sentence yields one chunk.
C3_OversizeSentenceIntact ==
    pc = "done" =>
        /\ \A i \in ChunkIdx : \A j \in OversizeIn(i) :
              /\ Len(built.closed[i].sents) = 1
              /\ chunks[i].text =
                    AppendSentence(Join(built.closed[i].seed), SentenceOf(i, j))
              /\ (overlap_tokens = 0 => chunks[i].text = SentenceOf(i, j))
        /\ \A p \in 1..Len(pages) :
              (Len(PageSentences(p)) = 1
               /\ count_tokens(PageSentences(p)[1]) > max_tokens)
                  => Cardinality(ChunksOfPage(p)) = 1

\* an oversize sentence sits behind an overlap tail, between two other chunks
C3_Witness ==
    /\ pc = "done"
    /\ \E i \in ChunkIdx :
          /\ OversizeIn(i) # {}
          /\ built.closed[i].seed # <<>>
          /\ i + 1 \in ChunksOfPage(built.closed[i].page)

\* consecutive chunks of one page
ConsecutivePairs ==
    {i \in ChunkIdx : i + 1 \in ChunkIdx
                      /\ built.closed[i].page = built.closed[i + 1].page}

WordsOf(i) == SplitWhitespace(chunks[i].text)

\* floor(words(chunk i) * overlap_tokens / max_tokens)
OverlapK(i) == (Len(WordsOf(i)) * overlap_tokens) \div max_tokens

FirstWords(ws, k) == SubSeq(ws, 1, k)

LastWords(ws, k) == SubSeq(ws, Len(ws) - k + 1, Len(ws))

\* C4 as stated: for overlap_percent > 0, chunk i has at least k =
\* floor(words * overlap_tokens / max_tokens) words and the first k words of the
\* next chunk of the page are its last k words, in order.
C4_OverlapIsLastKWords ==
    (req_overlap > 0 /\ max_tokens >= 1) =>
        \A i \in ConsecutivePairs :
            /\ OverlapK(i) <= Len(WordsOf(i))
            /\ OverlapK(i) <= Len(WordsOf(i + 1))
            /\ FirstWords(WordsOf(i + 1), OverlapK(i)) = LastWords(WordsOf(i), OverlapK(i))

MinOf(a, b) == IF a <= b THEN a ELSE b

\* C4 amended: with k capped at the number of words of chunk i (it exceeds it
\* only for overlap_percent > 100), the first k words of the next chunk of the
\* page are the last k words of chunk i, in order.
C4_OverlapIsLastWordsCapped ==
    (req_overlap > 0 /\ max_tokens >= 1) =>
        \A i \in ConsecutivePairs :
            LET k == MinOf(OverlapK(i), Len(WordsOf(i)))
            IN  /\ k <= Len(WordsOf(i + 1))
                /\ FirstWords(WordsOf(i + 1), k) = LastWords(WordsOf(i), k)

\* a chunk of two different words hands exactly its last word to the next chunk
C4_Witness ==
    /\ pc = "done"
    /\ req_overlap > 0 /\ max_tokens >= 1
    /\ \E i \in ConsecutivePairs :
          /\ Len(WordsOf(i)) = 2
          /\ WordsOf(i)[1] # WordsOf(i)[2]
          /\ OverlapK(i) = 1

\* C9: every chunk pushed by split has char_count equal to the length of its
\* (trimmed) text, whatever whitespace the page text holds.
C9_CharCountIsLengthOfText ==
    \A i \in ChunkIdx : chunks[i].char_count = StrLen(chunks[i].text)

\* a chunk from a page with whitespace to trim whose text keeps a doubled blank
C9_Witness ==
    /\ pc = "done"
    /\ \E i \in ChunkIdx :
          /\ pages[built.closed[i].page].text # Trim(pages[built.closed[i].page].text)
          /\ \E j \in 1..(Len(chunks[i].text) - 1) :
                IsWhitespace(chunks[i].text[j]) /\ IsWhitespace(chunks[i].text[j + 1])

\* the chunks of the page at position p, in order, without their ids
RECURSIVE ContentsFrom(_, _)
ContentsFrom(p, i) ==
    IF i > Len(chunks) THEN <<>>
    ELSE IF built.closed[i].page = p
         THEN <<Content(chunks[i])>> \o ContentsFrom(p, i + 1)
         ELSE ContentsFrom(p, i + 1)

RECURSIVE ContentsOf(_)
ContentsOf(cs) == IF cs = <<>> THEN <<>> ELSE <<Content(Head(cs))>> \o ContentsOf(Tail(cs))

\* the text built from an overlap tail and the sentences at positions js of
\* the page at position p, a blank between any two
RECURSIVE BuiltText(_, _, _)
BuiltText(start, p, js) ==
    IF js = <<>> THEN start
    ELSE BuiltText(AppendSentence(start, PageSentences(p)[Head(js)]), p, Tail(js))

IsSuffix(ws, of) == Len(ws) <= Len(of) /\ LastWords(of, Len(ws)) = ws

\* C10: in the result of split, the chunks are grouped by page in page order and
\* carry their page's page_num; a chunk's text is built only from sentences of
\* its page and trailing words of the page's previous chunk, the first chunk of
\* a page having no overlap tail; the chunks of a page are those of splitting
\* that page alone.
C10_PagesIndependent ==
    pc = "done" =>
        /\ \A i \in ChunkIdx :
              /\ chunks[i].page_num = pages[built.closed[i].page].page_num
              /\ (i + 1 \in ChunkIdx =>
                     built.closed[i].page <= built.closed[i + 1].page)
              /\ chunks[i].text =
                    BuiltText(Join(built.closed[i].seed), built.closed[i].page,
                              built.closed[i].sents)
              /\ IF i - 1 \in ChunksOfPage(built.closed[i].page)
                 THEN IsSuffix(built.closed[i].seed, WordsOf(i - 1))
                 ELSE built.closed[i].seed = <<>>
        /\ \A p \in 1..Len(pages) :
              ContentsFrom(p, 1) =
                  ContentsOf(SplitAlone(max_tokens, overlap_tokens, pages[p]).chunks)

\* two pages, the first ending in a chunk with an overlap tail to hand on
C10_Witness ==
    /\ pc = "done"
    /\ Len(pages) = 2
    /\ overlap_tokens >= 1
    /\ ChunksOfPage(1) # {} /\ ChunksOfPage(2) # {}

(* ------------------------------------------------------------------ *)
(* Parsers: parser/local_pdf.rs, docx.rs, html.rs,                      *)
(* azure_doc_intelligence.rs                                            *)
(* A document text is a sequence of runs [cls, n]: n characters of      *)
(* class "w" (whitespace, 1 byte), "x" (ASCII, 1 byte) or "m" (a        *)
(* two-byte character).                                                 *)
(* ------------------------------------------------------------------ *)

Run(cls, n) == [cls |-> cls, n |-> n]

ClsWidth(cls) == IF cls = "m" THEN 2 ELSE 1

\* String::len, in bytes
RECURSIVE RLen(_)
RLen(t) == IF t = <<>> THEN 0 ELSE Head(t).n * ClsWidth(Head(t).cls) + RLen(Tail(t))

\* chars().count()
RECURSIVE RChars(_)
RChars(t) == IF t = <<>> THEN 0 ELSE Head(t).n + RChars(Tail(t))

\* push_str: runs of one class merge
RConcat(a, b) ==
    IF a = <<>> THEN b
    ELSE IF b = <<>> THEN a
    ELSE IF a[Len(a)].cls = b[1].cls
         THEN SubSeq(a, 1, Len(a) - 1)
              \o <<Run(b[1].cls, a[Len(a)].n + b[1].n)>> \o Tail(b)
         ELSE a \o b

\* str::trim
RTrim(t) ==
    LET solid == {i \in 1..Len(t) : t[i].cls # "w"}
    IN  IF solid = {} THEN <<>> ELSE SubSeq(t, SetMin(solid), SetMax(solid))

\* str::is_char_boundary(b), for 0 <= b <= len
RECURSIVE RIsCharBoundary(_, _)
RIsCharBoundary(t, b) ==
    IF b = 0 \/ t = <<>> THEN TRUE
    ELSE LET bytes == Head(t).n * ClsWidth(Head(t).cls)
         IN  IF b >= bytes THEN RIsCharBoundary(Tail(t), b - bytes)
             ELSE b % ClsWidth(Head(t).cls) = 0

\* the first b bytes of t, b a character boundary
RECURSIVE RTake(_, _)
RTake(t, b) ==
    IF b = 0 \/ t = <<>> THEN <<>>
    ELSE LET bytes == Head(t).n * ClsWidth(Head(t).cls)
         IN  IF b >= bytes THEN <<Head(t)>> \o RTake(Tail(t), b - bytes)
             ELSE <<Run(Head(t).cls, b \div ClsWidth(Head(t).cls))>>

\* t without its first b bytes, b a character boundary
RECURSIVE RDrop(_, _)
RDrop(t, b) ==
    IF b = 0 \/ t = <<>> THEN t
    ELSE LET bytes == Head(t).n * ClsWidth(Head(t).cls)
         IN  IF b >= bytes THEN RDrop(Tail(t), b - bytes)
             ELSE <<Run(Head(t).cls, Head(t).n - b \div ClsWidth(Head(t).cls))>>
                  \o Tail(t)

\* &text[from..to]: the slice, or the panic of a bound inside a character
RSlice(t, from, to) ==
    IF RIsCharBoundary(t, from) /\ RIsCharBoundary(t, to)
    THEN [ok |-> TRUE, text |-> RTake(RDrop(t, from), to - from)]
    ELSE [ok |-> FALSE, text |-> <<>>]

\* the synthetic page size of DocxParser and HtmlParser
PageSize == 2000


NewPage(pageNum, text) == [page_num |-> pageNum, text |-> text]

(* ---------------- LocalPdfParser::parse, local_pdf.rs 19-52 --------- *)

\* extract is what pdf_extract::extract_text_from_mem returns: Some(text) for
\* Ok(text), None for Err
PdfParse(readOk, loadOk, pageCount, extract) ==
    IF ~readOk THEN [outcome |-> "err", error |-> "Io", pages |-> <<>>]
    ELSE IF ~loadOk THEN [outcome |-> "err", error |-> "PdfParse", pages |-> <<>>]
    ELSE IF pageCount >= 1 /\ ~extract.some
         THEN [outcome |-> "err", error |-> "PdfParse", pages |-> <<>>]
    ELSE LET \* lines 29-39: the first iteration pushes page 1 and breaks
             looped == IF pageCount >= 1 THEN <<NewPage(1, extract.v)>> ELSE <<>>
             \* lines 41-49: unwrap_or_default
             pages2 == IF looped = <<>> /\ pageCount > 0
                       THEN <<NewPage(1, extract.v)>>
                       ELSE looped
         IN  [outcome |-> "ok", error |-> "none", pages |-> pages2]

(* ---------------- DocxParser::parse, docx.rs 17-82 ------------------ *)

\* lines 46-49: a non-empty paragraph is appended with a newline
DocxAppend(currentText, paraText) ==
    IF paraText # <<>> THEN RConcat(RConcat(currentText, paraText), <<Run("w", 1)>>)
    ELSE currentText

\* the same measured in characters
DocxFullChars(currentText) == RChars(currentText) > PageSize

\* line 52
DocxFull(currentText) == RLen(currentText) > PageSize

(* ---------------- HtmlParser, html.rs 17-99 ------------------------- *)

\* extract_text, lines 24-55: the trimmed non-empty text nodes, each followed
\* by a blank, the whole trimmed
RECURSIVE HtmlCollect(_)
HtmlCollect(nodes) ==
    IF nodes = <<>> THEN <<>>
    ELSE LET content == RTrim(Head(nodes))
         IN  IF content # <<>>
             THEN RConcat(RConcat(content, <<Run("w", 1)>>), HtmlCollect(Tail(nodes)))
             ELSE HtmlCollect(Tail(nodes))

extract_text(nodes) == RTrim(HtmlCollect(nodes))

\* line 85
HtmlEndPos(currentPos, text) ==
    IF currentPos + PageSize < RLen(text) THEN currentPos + PageSize ELSE RLen(text)

(* ---------------- AzureDocIntelligenceParser, lines 52-156 ---------- *)

\* `for _ in 0..30`, line 83
PollBudget == 30

\* Duration::from_secs(2), line 84
PollIntervalSecs == 2

\* `doc_page.page_number as u32`, line 141: a negative i32 wraps to n + 2^32.
\* That exceeds the model checker's integers, so the wrapped values are placed,
\* in their order, at the top of its range (-1 at 2^31 - 1), above every
\* non-negative page number.
AsU32(n) == IF n >= 0 THEN n ELSE 2147483647 + (n + 1)

\* the same with a budget one poll longer
MorePollsInclusive(attemptsMade) == attemptsMade < PollBudget + 1

\* the loop of line 83 starts another iteration
MorePolls(attemptsMade) == attemptsMade < PollBudget

\* the same with an undecodable body skipped like a pending operation
AfterPollLenient(response) ==
    IF response = "send_err" THEN "fail"
    ELSE IF response = "completed" THEN "return"
    ELSE "continue"

\* What the loop body does with the response to the GET of lines 86-92:
\*   "send_err"   the request failed (line 92)
\*   "status_err" a non-success status: the body is not read (line 94)
\*   "malformed"  a success status whose body does not decode (line 98)
\*   "running"    a decoded body without analyzeResult (line 100)
\*   "completed"  a decoded body with analyzeResult (line 101)
AfterPoll(response) ==
    IF response \in {"send_err", "malformed"} THEN "fail"
    ELSE IF response = "completed" THEN "return"
    ELSE "continue"

\* lines 130-137: the lines of a page (none when `lines` is absent), each
\* followed by a newline
RECURSIVE OcrPageText(_)
OcrPageText(lines) ==
    IF lines = <<>> THEN <<>>
    ELSE RConcat(RConcat(Head(lines), <<Run("w", 1)>>), OcrPageText(Tail(lines)))

\* lines 126-147: the pages kept from the remote pages (none when `pages` is
\* absent), in the reported order
RECURSIVE OcrPages(_)
OcrPages(docPages) ==
    IF docPages = <<>> THEN <<>>
    ELSE LET text == OcrPageText(Head(docPages).lines.v)
         IN  (IF RTrim(text) # <<>>
              THEN <<NewPage(AsU32(Head(docPages).page_number), RTrim(text))>>
              ELSE <<>>) \o OcrPages(Tail(docPages))


(* ------------------------------------------------------------------ *)
(* Inputs of the parsers                                                *)
(* ------------------------------------------------------------------ *)

\* most pages a PDF reports
MaxPdfPages == 2
\* most children of a DOCX body
MaxChildren == 4
\* most text nodes of an HTML document
MaxNodes == 2
\* most pages the remote analysis reports
MaxRemotePages == 2

\* what pdf_extract returns: nothing, blanks, text
PdfExtracts == { None, Some(<<>>), Some(<<Run("w", 1)>>), Some(<<Run("x", 5)>>) }

\* body children: a table, and paragraphs without text, blank, of one
\* character, of a third of a page, of a page and one character, of half a page
\* and one of two-byte characters
DocxChildren ==
    { [kind |-> "other", text |-> <<>>],
      [kind |-> "para", text |-> <<>>],
      [kind |-> "para", text |-> <<Run("w", 1)>>],
      [kind |-> "para", text |-> <<Run("x", 1)>>],
      [kind |-> "para", text |-> <<Run("x", PageSize \div 3)>>],
      [kind |-> "para", text |-> <<Run("x", PageSize + 1)>>],
      [kind |-> "para", text |-> <<Run("m", PageSize \div 2 + 1)>>] }

DocxDocs == UNION {[1..k -> DocxChildren] : k \in 0..MaxChildren}

\* text nodes: blank, a word, a two-byte character, almost a page, a page of
\* two-byte characters behind one byte
HtmlNodes ==
    { <<Run("w", 1)>>, <<Run("x", 1)>>, <<Run("w", 1), Run("m", 1)>>,
      <<Run("x", PageSize - 1)>>, <<Run("x", 1), Run("m", PageSize \div 2)>> }

HtmlDocs == UNION {[1..k -> HtmlNodes] : k \in 0..MaxNodes}

\* remote pages: pageNumber as reported; lines absent, or a line of text and a
\* blank line
RemotePageNumbers == {0, 1, 2}

RemoteLines == { None, Some(<<<<Run("x", 3)>>, <<Run("w", 1)>>>>) }

RemotePage == [page_number : RemotePageNumbers, lines : RemoteLines]

RemoteAnalyses ==
    {None} \cup {Some(ps) : ps \in UNION {[1..k -> RemotePage] : k \in 0..MaxRemotePages}}

(* ------------------------------------------------------------------ *)
(* One call of parse                                                    *)
(* ------------------------------------------------------------------ *)

ParseIdle ==
    /\ parser = "none" /\ ppc = "idle" /\ outcome = "none" /\ error = "none"
    /\ out_pages = <<>> /\ children = <<>> /\ child_idx = 0
    /\ current_text = <<>> /\ page_num = 1 /\ html_text = <<>> /\ current_pos = 0
    /\ attempt = 0 /\ polls = 0 /\ waited = 0 /\ last = "none" /\ analysis = None

SplitIdle ==
    /\ pc = "idle" /\ req_max_tokens = 0 /\ req_overlap = 0 /\ pages = <<>>
    /\ max_tokens = 0 /\ overlap_tokens = 0 /\ page_idx = 0 /\ sentences = <<>>
    /\ sent_idx = 0 /\ current_chunk = <<>> /\ current_tokens = 0
    /\ chunks = <<>> /\ built = FreshBuilt(0, <<>>)
    /\ entry = "none" /\ options = None

ParseInit ==
    /\ parser \in {"pdf", "docx", "html", "ocr"}
    /\ ppc = "start" /\ outcome = "none" /\ error = "none"
    /\ out_pages = <<>>
    /\ children \in (IF parser = "docx" THEN DocxDocs ELSE {<<>>})
    /\ child_idx = 0
    /\ current_text = <<>> /\ page_num = 1 /\ html_text = <<>> /\ current_pos = 0
    /\ attempt = 0 /\ polls = 0 /\ waited = 0 /\ last = "none"
    /\ analysis \in (IF parser = "ocr" THEN RemoteAnalyses ELSE {None})

\* parse returns Err(e)
Fail(e) ==
    /\ outcome' = "err"
    /\ error' = e
    /\ ppc' = "done"

\* LocalPdfParser::parse
PdfParseCall ==
    /\ parser = "pdf" /\ ppc = "start"
    /\ \E readOk \in BOOLEAN, loadOk \in BOOLEAN, pageCount \in 0..MaxPdfPages,
          extract \in PdfExtracts :
          LET r == PdfParse(readOk, loadOk, pageCount, extract)
          IN  /\ outcome' = r.outcome
              /\ error' = r.error
              /\ out_pages' = r.pages
    /\ ppc' = "done"
    /\ UNCHANGED <<parser, children, child_idx, current_text, page_num, html_text,
                   current_pos>>
    /\ UNCHANGED <<splitVars, ocrVars, entryVars>>

\* DocxParser::parse, lines 19-29
DocxOpen ==
    /\ parser = "docx" /\ ppc = "start"
    /\ \E opened \in {"io", "bad", "ok"} :
          IF opened = "io" THEN Fail("Io")
          ELSE IF opened = "bad" THEN Fail("ParseError")
          ELSE ppc' = "children" /\ UNCHANGED <<outcome, error>>
    /\ UNCHANGED <<parser, out_pages, children, child_idx, current_text, page_num,
                   html_text, current_pos>>
    /\ UNCHANGED <<splitVars, ocrVars, entryVars>>

\* DocxParser::parse, one iteration of the loop of lines 32-64
DocxChild ==
    /\ parser = "docx" /\ ppc = "children"
    /\ child_idx < Len(children)
    /\ child_idx' = child_idx + 1
    /\ LET child == children[child_idx + 1]
           appended == DocxAppend(current_text, child.text)
       IN  IF child.kind = "para"
           THEN IF DocxFull(appended)
                THEN /\ out_pages' = Append(out_pages, NewPage(page_num, RTrim(appended)))
                     /\ current_text' = <<>>
                     /\ page_num' = page_num + 1
                ELSE /\ current_text' = appended
                     /\ UNCHANGED <<out_pages, page_num>>
           ELSE UNCHANGED <<out_pages, current_text, page_num>>
    /\ UNCHANGED <<parser, ppc, outcome, error, children, html_text, current_pos>>
    /\ UNCHANGED <<splitVars, ocrVars, entryVars>>

\* DocxParser::parse, lines 66-81
DocxFinish ==
    /\ parser = "docx" /\ ppc = "children"
    /\ child_idx = Len(children)
    /\ LET final == IF RTrim(current_text) # <<>>
                    THEN Append(out_pages, NewPage(page_num, RTrim(current_text)))
                    ELSE out_pages
       IN  /\ out_pages' = final
           /\ IF final = <<>> THEN Fail("ParseError")
              ELSE outcome' = "ok" /\ ppc' = "done" /\ UNCHANGED error
    /\ UNCHANGED <<parser, children, child_idx, current_text, page_num, html_text,
                   current_pos>>
    /\ UNCHANGED <<splitVars, ocrVars, entryVars>>

\* HtmlParser::parse, lines 61-82
HtmlOpen ==
    /\ parser = "html" /\ ppc = "start"
    /\ \E opened \in {"io", "bad_utf8", "ok"}, nodes \in HtmlDocs :
          IF opened = "io" THEN Fail("Io") /\ UNCHANGED html_text
          ELSE IF opened = "bad_utf8" THEN Fail("ParseError") /\ UNCHANGED html_text
          ELSE IF extract_text(nodes) = <<>>
               THEN Fail("ParseError") /\ UNCHANGED html_text
          ELSE /\ html_text' = extract_text(nodes)
               /\ ppc' = "slicing"
               /\ UNCHANGED <<outcome, error>>
    /\ UNCHANGED <<parser, out_pages, children, child_idx, current_text, page_num,
                   current_pos>>
    /\ UNCHANGED <<splitVars, ocrVars, entryVars>>

\* HtmlParser::parse, one iteration of the loop of lines 84-96
HtmlSlice ==
    /\ parser = "html" /\ ppc = "slicing"
    /\ current_pos < RLen(html_text)
    /\ LET end_pos == HtmlEndPos(current_pos, html_text)
           page_text == RSlice(html_text, current_pos, end_pos)
       IN  IF page_text.ok
           THEN /\ out_pages' = Append(out_pages, NewPage(page_num, page_text.text))
                /\ current_pos' = end_pos
                /\ page_num' = page_num + 1
                /\ UNCHANGED <<ppc, outcome>>
           ELSE /\ outcome' = "panic"
                /\ ppc' = "done"
                /\ UNCHANGED <<out_pages, current_pos, page_num>>
    /\ UNCHANGED <<parser, error, children, child_idx, current_text, html_text>>
    /\ UNCHANGED <<splitVars, ocrVars, entryVars>>

\* HtmlParser::parse, line 98
HtmlFinish ==
    /\ parser = "html" /\ ppc = "slicing"
    /\ current_pos >= RLen(html_text)
    /\ outcome' = "ok"
    /\ ppc' = "done"
    /\ UNCHANGED <<parser, error, out_pages, children, child_idx, current_text,
                   page_num, html_text, current_pos>>
    /\ UNCHANGED <<splitVars, ocrVars, entryVars>>

\* AzureDocIntelligenceParser: parse lines 113-115 and the submission of
\* analyze_document, lines 56-80
OcrSubmit ==
    /\ parser = "ocr" /\ ppc = "start"
    /\ \E response \in {"io", "send_err", "status_err", "no_location", "bad_header",
                        "accepted"} :
          /\ last' = response
          /\ IF response = "io" THEN Fail("Io")
             ELSE IF response = "accepted"
                  THEN ppc' = "sleep" /\ UNCHANGED <<outcome, error>>
             ELSE Fail("ParseError")
    /\ UNCHANGED <<parser, out_pages, children, child_idx, current_text, page_num,
                   html_text, current_pos>>
    /\ UNCHANGED <<attempt, polls, waited, analysis>>
    /\ UNCHANGED <<splitVars, entryVars>>

\* the top of a poll iteration: lines 83-84
OcrSleep ==
    /\ parser = "ocr" /\ ppc = "sleep"
    /\ MorePolls(attempt)
    /\ attempt' = attempt + 1
    /\ waited' = waited + PollIntervalSecs
    /\ ppc' = "get"
    /\ UNCHANGED <<parser, outcome, error, out_pages, children, child_idx,
                   current_text, page_num, html_text, current_pos>>
    /\ UNCHANGED <<polls, last, analysis>>
    /\ UNCHANGED <<splitVars, entryVars>>

\* the status request of a poll iteration and what follows it: lines 86-103
OcrGet ==
    /\ parser = "ocr" /\ ppc = "get"
    /\ polls' = polls + 1
    /\ \E response \in {"send_err", "status_err", "malformed", "running", "completed"} :
          /\ last' = response
          /\ IF AfterPoll(response) = "fail"
             THEN Fail("ParseError")
             ELSE IF AfterPoll(response) = "return"
                  THEN ppc' = "assemble" /\ UNCHANGED <<outcome, error>>
             ELSE ppc' = "sleep" /\ UNCHANGED <<outcome, error>>
    /\ UNCHANGED <<parser, out_pages, children, child_idx, current_text, page_num,
                   html_text, current_pos>>
    /\ UNCHANGED <<attempt, waited, analysis>>
    /\ UNCHANGED <<splitVars, entryVars>>

\* the budget is used up: line 106
OcrTimeout ==
    /\ parser = "ocr" /\ ppc = "sleep"
    /\ ~MorePolls(attempt)
    /\ last' = "timeout"
    /\ Fail("ParseError")
    /\ UNCHANGED <<parser, out_pages, children, child_idx, current_text, page_num,
                   html_text, current_pos>>
    /\ UNCHANGED <<attempt, polls, waited, analysis>>
    /\ UNCHANGED <<splitVars, entryVars>>

\* AzureDocIntelligenceParser::parse, lines 122-155
OcrAssemble ==
    /\ parser = "ocr" /\ ppc = "assemble"
    /\ out_pages' = OcrPages(analysis.v)
    /\ IF OcrPages(analysis.v) = <<>> THEN Fail("ParseError")
       ELSE outcome' = "ok" /\ ppc' = "done" /\ UNCHANGED error
    /\ UNCHANGED <<parser, children, child_idx, current_text, page_num, html_text,
                   current_pos>>
    /\ UNCHANGED ocrVars
    /\ UNCHANGED <<splitVars, entryVars>>

OcrNext == OcrSubmit \/ OcrSleep \/ OcrGet \/ OcrTimeout \/ OcrAssemble

ParseNext ==
    \/ PdfParseCall
    \/ DocxOpen \/ DocxChild \/ DocxFinish
    \/ HtmlOpen \/ HtmlSlice \/ HtmlFinish
    \/ OcrSubmit \/ OcrSleep \/ OcrGet \/ OcrTimeout \/ OcrAssemble

(* ------------------------------------------------------------------ *)
(* Specifications                                                       *)
(* ------------------------------------------------------------------ *)

Init == SplitInit /\ ParseIdle

ParserInit == ParseInit /\ SplitIdle

Next == SplitNext

\* the splitter: construction, then one call of split
Spec == Init /\ [][Next]_vars

\* the parsers: one call of parse of one of the four parsers
ParserSpec == ParserInit /\ [][ParseNext]_vars

\* the polling does not read the analysis: one remote page at most is enough
OcrInit == ParserInit /\ parser = "ocr" /\ Len(analysis.v) <= 1

\* one call of AzureDocIntelligenceParser::parse; the runtime drives the call
\* on: every request is answered or fails, every sleep ends
OcrFairSpec == OcrInit /\ [][OcrNext]_vars /\ WF_vars(OcrNext)

(* ------------------------------------------------------------------ *)
(* Properties of the parsers                                            *)
(* ------------------------------------------------------------------ *)

\* C5: the pages of every successful parse, of any parser, have page_num >= 1
\* and non-decreasing along the sequence.
C5_PageNumsOrdered ==
    outcome = "ok" =>
        /\ \A i \in 1..Len(out_pages) : out_pages[i].page_num >= 1
        /\ \A i \in 1..(Len(out_pages) - 1) :
              out_pages[i].page_num <= out_pages[i + 1].page_num

\* C6: the PDF parser returns no empty success: no Ok result has zero pages or
\* a page with empty text.
C6_PdfNoEmptySuccess ==
    (parser = "pdf" /\ outcome = "ok") =>
        /\ out_pages # <<>>
        /\ \A i \in 1..Len(out_pages) : out_pages[i].text # <<>>

OcrEnded == ppc \in {"assemble", "done"}

\* C7: after an accepted submission at most 30 status requests are issued,
\* each after a 2-second sleep of its own; the first completed response ends
\* the polling and is the result; the call times out only after 30 requests
\* without completion, and then requests nothing more; every call ends.
C7_PollBudget ==
    /\ [](parser = "ocr" =>
            /\ polls <= PollBudget
            /\ waited = PollIntervalSecs * (IF ppc = "get" THEN polls + 1 ELSE polls)
            /\ (last = "completed" => OcrEnded)
            /\ (last = "timeout" => polls = PollBudget /\ outcome = "err"))
    /\ [][(parser = "ocr" /\ OcrEnded) => polls' = polls /\ waited' = waited]_vars
    /\ <>(parser = "ocr" => ppc = "done")

\* a call that timed out
C7_Witness == parser = "ocr" /\ last = "timeout" /\ ppc = "done"

\* a submission that fails
SubmitFailed == last \in {"send_err", "status_err", "no_location", "bad_header"}
                /\ polls = 0

\* C8: a submission answered with a non-success status or a malformed response
\* fails the call with no status request issued and no sleep; a malformed
\* response to a status request fails the call at once; a failed call requests
\* and sleeps no more.
C8_FailFast ==
    /\ [](parser = "ocr" =>
            /\ (SubmitFailed => outcome = "err" /\ ppc = "done" /\ waited = 0)
            /\ (last = "malformed" => outcome = "err" /\ ppc = "done"))
    /\ [][(parser = "ocr" /\ outcome = "err")
             => polls' = polls /\ waited' = waited /\ outcome' = "err"]_vars

\* a malformed response to a status request before the budget is used up
C8_Witness ==
    /\ parser = "ocr" /\ last = "malformed" /\ outcome = "err"
    /\ polls >= 2 /\ polls < PollBudget

\* the paragraph texts of the body, concatenated
RECURSIVE DocxConcat(_)
DocxConcat(cs) ==
    IF cs = <<>> THEN <<>>
    ELSE RConcat(IF Head(cs).kind = "para" THEN Head(cs).text ELSE <<>>,
                 DocxConcat(Tail(cs)))

\* what current_text would hold after the whole body if nothing were flushed
RECURSIVE DocxBuffer(_)
DocxBuffer(cs) ==
    IF cs = <<>> THEN <<>>
    ELSE RConcat(IF Head(cs).kind = "para" THEN DocxAppend(<<>>, Head(cs).text)
                 ELSE <<>>,
                 DocxBuffer(Tail(cs)))

\* the loop over the body's children has run to its end and parse has returned
DocxWalked ==
    parser = "docx" /\ ppc = "done" /\ children # <<>> /\ child_idx = Len(children)

RECURSIVE PagesText(_)
PagesText(ps) == IF ps = <<>> THEN <<>> ELSE RConcat(Head(ps).text, PagesText(Tail(ps)))

\* C12: when the extracted text of an HTML input is non-empty, parse succeeds
\* with pages numbered 1..n whose texts concatenated are the extracted text,
\* every page but the last of exactly 2000 characters, the last of 1 to 2000.
C12_HtmlPagination ==
    (parser = "html" /\ html_text # <<>>) =>
        /\ outcome # "panic"
        /\ ppc = "done" =>
              /\ outcome = "ok"
              /\ out_pages # <<>>
              /\ \A i \in 1..Len(out_pages) :
                    /\ out_pages[i].page_num = i
                    /\ RChars(out_pages[i].text) >= 1
                    /\ RChars(out_pages[i].text) <= PageSize
                    /\ (i < Len(out_pages) => RChars(out_pages[i].text) = PageSize)
              /\ PagesText(out_pages) = html_text

\* the token counts of the sentences, added up as line 80 adds them
RECURSIVE SumTokens(_)
SumTokens(ss) == IF ss = <<>> THEN 0 ELSE count_tokens(Head(ss)) + SumTokens(Tail(ss))

\* C13: a page whose sentences fit max_tokens together (their token counts
\* add up to at most max_tokens) yields exactly one chunk, whose text is the
\* page's sentences in order joined by single blanks, for any overlap_percent.
C13_FittingPageOneChunk ==
    pc = "done" =>
        \A p \in 1..Len(pages) :
            (PageSentences(p) # <<>> /\ SumTokens(PageSentences(p)) <= max_tokens)
                => /\ Cardinality(ChunksOfPage(p)) = 1
                   /\ \A i \in ChunksOfPage(p) : chunks[i].text = Join(PageSentences(p))

\* a page of several sentences that use the budget up, with overlap configured
C13_Witness ==
    /\ pc = "done"
    /\ overlap_tokens >= 1
    /\ \E p \in 1..Len(pages) :
          /\ Len(PageSentences(p)) >= 2
          /\ SumTokens(PageSentences(p)) = max_tokens

(* ------------------------------------------------------------------ *)
(* The Sentence Segmenter on texts of every terminal character          *)
(* ------------------------------------------------------------------ *)

\* longest text
MaxChars == 4

\* a letter, the four terminal characters and a blank
SegChars == {"a", ".", "!", "?", "\n", " "}

SegTexts == UNION {[1..k -> SegChars] : k \in 0..MaxChars}

\* a splitter with room for a sentence and no overlap, and one page of text
SegmenterInit ==
    /\ pc = "new"
    /\ req_max_tokens = MaxTokens
    /\ req_overlap = 0
    /\ pages \in {<<[page_num |-> 1, text |-> t]>> : t \in SegTexts}
    /\ max_tokens = 0 /\ overlap_tokens = 0 /\ page_idx = 0
    /\ sentences = <<>> /\ sent_idx = 0
    /\ current_chunk = <<>> /\ current_tokens = 0
    /\ chunks = <<>> /\ built = FreshBuilt(0, <<>>)
    /\ entry = "none" /\ options = None
    /\ ParseIdle

SegmenterSpec == SegmenterInit /\ [][Next]_vars

\* the positions of the terminal characters of a text
Terminals(text) == {i \in 1..Len(text) : IsTerminal(text[i])}

\* where the run starting at position s ends: at the next terminal character,
\* or with the text
SegmentEnd(text, s) ==
    IF \E t \in Terminals(text) : t >= s
    THEN SetMin({t \in Terminals(text) : t >= s})
    ELSE Len(text)

\* the runs from position s on, trimmed, those that are blank left out
RECURSIVE SegmentsFrom(_, _)
SegmentsFrom(text, s) ==
    IF s > Len(text) THEN <<>>
    ELSE LET seg == Trim(SubSeq(text, s, SegmentEnd(text, s)))
         IN  (IF seg # <<>> THEN <<seg>> ELSE <<>>)
             \o SegmentsFrom(text, SegmentEnd(text, s) + 1)

\* the text the sentences of the current page were cut from
SegmentedText == pages[page_idx].text

\* C14 as stated: the sentences are the trimmed non-blank runs of the text, each
\* run ending with a terminal character or with the text, in order; each is
\* non-empty and trimmed; a text without terminal character yields exactly one.
C14_SegmenterAsStated ==
    pc = "sentences" =>
        /\ sentences = SegmentsFrom(SegmentedText, 1)
        /\ \A i \in 1..Len(sentences) :
              sentences[i] # <<>> /\ Trim(sentences[i]) = sentences[i]
        /\ (Terminals(SegmentedText) = {} => Len(sentences) = 1)

\* C14 amended: as stated, but a text without terminal character yields exactly
\* one sentence, the trimmed text, when it is not blank, and none when it is
\* blank or empty.
C14_SentenceSegmenter ==
    pc = "sentences" =>
        /\ sentences = SegmentsFrom(SegmentedText, 1)
        /\ \A i \in 1..Len(sentences) :
              sentences[i] # <<>> /\ Trim(sentences[i]) = sentences[i]
        /\ (Terminals(SegmentedText) = {} =>
               sentences = IF Trim(SegmentedText) = <<>> THEN <<>>
                           ELSE <<Trim(SegmentedText)>>)

\* a text with a blank run that is dropped between two sentences, the second
\* one without terminal character
C14_Witness ==
    /\ pc = "sentences"
    /\ Len(sentences) = 2
    /\ \E s \in 2..Len(SegmentedText) :
          /\ IsTerminal(SegmentedText[s - 1])
          /\ SegmentEnd(SegmentedText, s) \in Terminals(SegmentedText)
          /\ Trim(SubSeq(SegmentedText, s, SegmentEnd(SegmentedText, s))) = <<>>
    /\ ~IsTerminal(SegmentedText[Len(SegmentedText)])
    /\ ~IsWhitespace(SegmentedText[Len(SegmentedText)])

(* ------------------------------------------------------------------ *)
(* The entry points: grpc/mod.rs parse_document, api/mod.rs            *)
(* parse_document                                                       *)
(* ------------------------------------------------------------------ *)

\* grpc/mod.rs line 39
DefaultMaxTokens == 500

\* grpc/mod.rs line 44
DefaultOverlapPercent == 10

\* max_tokens_per_chunk and overlap_percent of a request: negative, zero (what
\* a field left out decodes to), positive
TokenOptions == {-1, 0, 1, MaxTokens}

OverlapOptions == {-1, 0, 50, 100}

\* req.options: absent, or the two fields
RequestOptions ==
    {None} \cup {Some([max_tokens_per_chunk |-> m, overlap_percent |-> o]) :
                   m \in TokenOptions, o \in OverlapOptions}

\* req.options.unwrap_or_default(), line 35
UnwrapOrDefault(opt) ==
    IF opt.some THEN opt.v ELSE [max_tokens_per_chunk |-> 0, overlap_percent |-> 0]

\* lines 36-40
GrpcMaxTokens(o) ==
    IF o.max_tokens_per_chunk > 0 THEN o.max_tokens_per_chunk ELSE DefaultMaxTokens

\* lines 41-45
GrpcOverlap(o) ==
    IF o.overlap_percent > 0 THEN o.overlap_percent ELSE DefaultOverlapPercent

\* the characters of a parsed page's text
RECURSIVE Expand(_)
Expand(t) ==
    IF t = <<>> THEN <<>>
    ELSE [i \in 1..Head(t).n |-> IF Head(t).cls = "w" THEN " " ELSE "a"]
         \o Expand(Tail(t))

RECURSIVE ExpandPages(_)
ExpandPages(ps) ==
    IF ps = <<>> THEN <<>>
    ELSE <<[page_num |-> Head(ps).page_num, text |-> Expand(Head(ps).text)]>>
         \o ExpandPages(Tail(ps))

EntryInit ==
    /\ entry \in {"grpc", "rest"}
    /\ options \in (IF entry = "grpc" THEN RequestOptions ELSE {None})
    /\ pc = "request"
    /\ req_max_tokens = 0 /\ req_overlap = 0 /\ pages = <<>>
    /\ max_tokens = 0 /\ overlap_tokens = 0 /\ page_idx = 0
    /\ sentences = <<>> /\ sent_idx = 0
    /\ current_chunk = <<>> /\ current_tokens = 0
    /\ chunks = <<>> /\ built = FreshBuilt(0, <<>>)
    /\ ParseIdle

\* the handler up to the arguments of SentenceTextSplitter::new: the content is
\* parsed as PDF (a Cursor does not fail to read) and the request is answered
\* with an error when that fails
Handler(maxTokens, overlap) ==
    /\ pc = "request"
    /\ \E loadOk \in BOOLEAN, pageCount \in 0..MaxPdfPages, extract \in PdfExtracts :
          LET r == PdfParse(TRUE, loadOk, pageCount, extract)
          IN  IF r.outcome = "err"
              THEN pc' = "rejected" /\ UNCHANGED <<pages, req_max_tokens, req_overlap>>
              ELSE /\ pages' = ExpandPages(r.pages)
                   /\ req_max_tokens' = maxTokens
                   /\ req_overlap' = overlap
                   /\ pc' = "new"
    /\ UNCHANGED <<max_tokens, overlap_tokens, page_idx, sentences, sent_idx,
                   current_chunk, current_tokens, chunks, built>>
    /\ UNCHANGED <<parseVars, ocrVars, entryVars>>

\* grpc/mod.rs, lines 30-47
GrpcParseDocument ==
    /\ entry = "grpc"
    /\ Handler(GrpcMaxTokens(UnwrapOrDefault(options)),
               GrpcOverlap(UnwrapOrDefault(options)))

\* api/mod.rs, lines 87-90
RestParseDocument ==
    /\ entry = "rest"
    /\ Handler(DefaultMaxTokens, DefaultOverlapPercent)

EntryNext == GrpcParseDocument \/ RestParseDocument \/ SplitNext

\* one request to either entry point
EntrySpec == EntryInit /\ [][EntryNext]_vars

\* the splitter of a gRPC request has been constructed
GrpcConstructed == entry = "grpc" /\ pc \in {"pages", "sentences", "done", "panic"}

\* C15: the splitter of a gRPC request is constructed with the requested
\* max_tokens_per_chunk when that is positive and with 500 otherwise, never
\* with 0; with the requested overlap_percent when that is non-negative, 0
\* included, and with 10 when the options are not set.
C15_GrpcParameters ==
    GrpcConstructed =>
        /\ max_tokens = IF options.some /\ options.v.max_tokens_per_chunk > 0
                        THEN options.v.max_tokens_per_chunk
                        ELSE DefaultMaxTokens
        /\ max_tokens # 0
        /\ (options.some /\ options.v.overlap_percent >= 0
               => req_overlap = options.v.overlap_percent)
        /\ (~options.some => req_overlap = DefaultOverlapPercent)
        /\ overlap_tokens = OverlapTokens(max_tokens, req_overlap)

(* ------------------------------------------------------------------ *)
(* Sentence integrity and the token budget                              *)
(* ------------------------------------------------------------------ *)

\* the sentences j..k of the page at position p, joined by single blanks
SentenceRun(p, j, k) == Join(SubSeq(PageSentences(p), j, k))

\* the sentence positions appended to the chunks from position i on that
\* belong to the page at position p, in the order of the chunks
RECURSIVE AppendedFrom(_, _)
AppendedFrom(p, i) ==
    IF i > Len(chunks) THEN <<>>
    ELSE (IF built.closed[i].page = p THEN built.closed[i].sents ELSE <<>>)
         \o AppendedFrom(p, i + 1)

\* C16 as stated: for max_tokens >= 1 and overlap_percent in 0..100, every
\* chunk's text is a run of whole consecutive sentences of its page (it starts
\* with the first word of a sentence and ends with the last word of one), and
\* every sentence of a page is contained whole in a chunk of the page.
C16_NoBoundaryInsideSentence ==
    (pc = "done" /\ ValidParams) =>
        /\ \A i \in ChunkIdx :
              \E j, k \in 1..Len(PageSentences(built.closed[i].page)) :
                  j <= k /\ chunks[i].text = SentenceRun(built.closed[i].page, j, k)
        /\ \A p \in 1..Len(pages) : \A j \in 1..Len(PageSentences(p)) :
              \E i \in ChunksOfPage(p) :
                  ContainsRun(WordsOf(i), SplitWhitespace(PageSentences(p)[j]))

\* C16 amended: every chunk's text is its overlap tail (trailing words of the
\* page's previous chunk, wherever in a sentence they start; none in the first
\* chunk of a page or without overlap) followed by one or more whole consecutive
\* sentences of the page, single blanks between; it ends with the last word of
\* a sentence; every sentence of a page is appended to exactly one chunk, in
\* page order.
C16_SentencesWhole ==
    pc = "done" =>
        /\ \A i \in ChunkIdx :
              LET b == built.closed[i]
                  n == Len(b.sents)
              IN  /\ n >= 1
                  /\ \A x \in 1..(n - 1) : b.sents[x + 1] = b.sents[x] + 1
                  /\ chunks[i].text =
                        Join((IF b.seed = <<>> THEN <<>> ELSE <<Join(b.seed)>>)
                             \o <<SentenceRun(b.page, b.sents[1], b.sents[n])>>)
                  /\ IsSuffix(SplitWhitespace(PageSentences(b.page)[b.sents[n]]),
                              WordsOf(i))
                  /\ IF i - 1 \in ChunksOfPage(b.page)
                     THEN IsSuffix(b.seed, WordsOf(i - 1))
                     ELSE b.seed = <<>>
                  /\ (overlap_tokens = 0 => b.seed = <<>>)
        /\ \A p \in 1..Len(pages) :
              AppendedFrom(p, 1) = [j \in 1..Len(PageSentences(p)) |-> j]

\* a chunk whose overlap tail starts inside the last sentence of the chunk
\* before it
C16_Witness ==
    /\ pc = "done" /\ ValidParams
    /\ \E i \in ChunkIdx :
          /\ i - 1 \in ChunksOfPage(built.closed[i].page)
          /\ built.closed[i].seed # <<>>
          /\ LET prev == built.closed[i - 1]
                 lastSentence == PageSentences(prev.page)[prev.sents[Len(prev.sents)]]
             IN  Len(built.closed[i].seed) < Len(SplitWhitespace(lastSentence))

\* C17: for max_tokens >= 1 and overlap_percent in 0..100, a chunk's token_count
\* exceeds max_tokens only if the chunk is a single sentence, without overlap
\* tail, that alone exceeds max_tokens.
C17_BudgetBound ==
    ValidParams =>
        \A i \in ChunkIdx :
            chunks[i].token_count > max_tokens =>
                /\ built.closed[i].seed = <<>>
                /\ Len(built.closed[i].sents) = 1
                /\ count_tokens(SentenceOf(i, 1)) > max_tokens

====
